---- MODULE Spec2Model ----
(***************************************************************************)
(* A model of the AgriPulse backend's market terminal                      *)
(* (src/routers/terminal.py): the mandi record normaliser, the summary     *)
(* aggregator, the price forecast, the structured insight resolver with    *)
(* its deterministic fallback, and the trade simulation endpoint.          *)
(*                                                                         *)
(* Numbers.  Raw prices are whole rupees.  A value the code rounds to two  *)
(* decimals is kept in hundredths (paise); the random jitter of the        *)
(* forecast and the median are kept in thousandths (mils), so rounding to  *)
(* two decimals is a real operation of the model.                          *)
(***************************************************************************)
EXTENDS Integers, Sequences, FiniteSets, TLC

VARIABLES
    pc,             \* position of the request, or of the function called
    records,        \* raw records handed to normalize_mandi_records
    market_data,    \* normalized records
    summary,        \* summary object of get_market_terminal
    weather,        \* weather snapshot of fetch_weather_for_location
    today,          \* evaluation date (utcnow().date()), as <<y, m, d>>
    days,           \* forecast horizon
    price_forecast, \* result of generate_price_forecast
    jitter,         \* the random.uniform draws of the forecast, in mils
    ai,             \* outcome of the text-generation collaborator
    insight,        \* result of generate_structured_ai_insight
    status,         \* HTTP status of the response, 0 while there is none
    raised,         \* TRUE when the function called raised
    trade,          \* query, distance reply and result of simulate_trade
    calls           \* per call site: requests sent, and whether the call failed

vars == << pc, records, market_data, summary, weather, today, days,
           price_forecast, jitter, ai, insight, status, raised, trade, calls >>

-----------------------------------------------------------------------------
(* Bounds of the model.                                                    *)

MaxRecords == 3

MaxDays == 3

\* Records handed to fallback_structured_insight: more than it lists.
MaxMarkets == 6

-----------------------------------------------------------------------------
(* Loosely typed provider values.  t is the JSON type of the value:        *)
(* "absent" (no such key), "null", "junk" (a string float() rejects),      *)
(* "numstr" (a numeric string) or "num" (a JSON number); v its value.      *)

Absent == [t |-> "absent", v |-> 0]

Null == [t |-> "null", v |-> 0]

Junk == [t |-> "junk", v |-> 0]

NumStr(n) == [t |-> "numstr", v |-> n]

Num(n) == [t |-> "num", v |-> n]

\* Python's None, and a float, as the value of a nullable field.
None == [t |-> "none", v |-> 0]

Float(n) == [t |-> "float", v |-> n]

\* float(x) succeeds exactly on numbers and numeric strings.
FloatParses(x) == x.t \in {"numstr", "num"}

float_or_none(x) == IF FloatParses(x) THEN Float(x.v) ELSE None

\* str.capitalize() on the commodity names the model uses.
Capitalize(s) ==
    CASE s = "wheat" -> "Wheat"
      [] s = "WHEAT" -> "Wheat"
      [] OTHER -> s

\* One normalized record, built from a raw mapping r whose modal_price parses.
NormalizedRecord(r, commodity_name) ==
    [ state        |-> r.state,
      district     |-> r.district,
      market       |-> r.market,
      commodity    |-> Capitalize(commodity_name),
      variety      |-> r.variety,
      arrival_date |-> r.arrival_date,
      min_price    |-> float_or_none(r.min_price),
      max_price    |-> float_or_none(r.max_price),
      modal_price  |-> r.modal_price.v,
      unit         |-> r.unit ]

\* The body of the loop's try block succeeds: r is a mapping (r["modal_price"]
\* raises TypeError otherwise), the key is there (KeyError) and float() takes it.
RecordKept(r) == r.is_map /\ r.modal_price.t # "absent" /\ FloatParses(r.modal_price)

RECURSIVE NormalizeFrom(_, _, _)
NormalizeFrom(recs, i, commodity_name) ==
    IF i > Len(recs) THEN << >>
    ELSE IF RecordKept(recs[i])
         THEN << NormalizedRecord(recs[i], commodity_name) >>
                  \o NormalizeFrom(recs, i + 1, commodity_name)
         ELSE NormalizeFrom(recs, i + 1, commodity_name)

\* A normaliser that gives up at the first bad record.
normalize_mandi_records_aborting(recs, commodity_name) ==
    IF \A i \in 1..Len(recs) : RecordKept(recs[i])
    THEN NormalizeFrom(recs, 1, commodity_name)
    ELSE << >>

normalize_mandi_records(recs, commodity_name) == NormalizeFrom(recs, 1, commodity_name)

-----------------------------------------------------------------------------
(* Arithmetic of the aggregates.                                           *)

\* round(num / den, 2) in hundredths, den > 0: the nearest hundredth, an exact
\* tie going to the even one as Python's round does.  The whole part is split
\* off first to keep the products small.
Round2(num, den) ==
    LET whole == num \div den
        rest  == num % den
        q     == (100 * rest) \div den
        r     == (100 * rest) % den
    IN  100 * whole + (IF 2 * r < den THEN q
                       ELSE IF 2 * r > den THEN q + 1
                       ELSE IF q % 2 = 0 THEN q ELSE q + 1)

RECURSIVE Sum(_)
Sum(s) == IF s = << >> THEN 0 ELSE Head(s) + Sum(Tail(s))

\* Insert x into the ascending sequence s, after the elements equal to it.
RECURSIVE InsertAsc(_, _)
InsertAsc(s, x) ==
    IF s = << >> THEN << x >>
    ELSE IF x < Head(s) THEN << x >> \o s
    ELSE << Head(s) >> \o InsertAsc(Tail(s), x)

RECURSIVE SortAsc(_)
SortAsc(s) == IF s = << >> THEN << >> ELSE InsertAsc(SortAsc(SubSeq(s, 1, Len(s) - 1)), s[Len(s)])

\* statistics.median of a non-empty sequence of whole numbers, in mils.
MedianMils(s) ==
    LET o == SortAsc(s)
        n == Len(o)
    IN  IF n % 2 = 1 THEN 1000 * o[(n + 1) \div 2]
        ELSE 500 * (o[n \div 2] + o[n \div 2 + 1])

\* [m["modal_price"] for m in market_data if m.get("modal_price")]: the
\* condition is the truth value of the price, so a price of 0.0 is left out.
RECURSIVE TruthyPricesFrom(_, _)
TruthyPricesFrom(md, i) ==
    IF i > Len(md) THEN << >>
    ELSE IF md[i].modal_price # 0
         THEN << md[i].modal_price >> \o TruthyPricesFrom(md, i + 1)
         ELSE TruthyPricesFrom(md, i + 1)

TruthyPrices(md) == TruthyPricesFrom(md, 1)

-----------------------------------------------------------------------------
(* Calendar dates: datetime.date, and date + timedelta(days=i), which      *)
(* CPython computes as fromordinal(toordinal() + i).                       *)

IsLeap(y) == y % 4 = 0 /\ (y % 100 # 0 \/ y % 400 = 0)

DaysInMonth(y, m) ==
    IF m = 2 THEN (IF IsLeap(y) THEN 29 ELSE 28)
    ELSE IF m \in {4, 6, 9, 11} THEN 30 ELSE 31

RECURSIVE DaysBeforeMonth(_, _)
DaysBeforeMonth(y, m) ==
    IF m = 1 THEN 0 ELSE DaysBeforeMonth(y, m - 1) + DaysInMonth(y, m - 1)

DaysBeforeYear(y) ==
    LET p == y - 1
    IN  p * 365 + p \div 4 - p \div 100 + p \div 400

ToOrdinal(dt) == DaysBeforeYear(dt[1]) + DaysBeforeMonth(dt[1], dt[2]) + dt[3]

\* The month holding day-of-year n (counted from 0) of year y, from m on.
RECURSIVE MonthOfDay(_, _, _)
MonthOfDay(y, m, n) ==
    IF m < 12 /\ n >= DaysBeforeMonth(y, m + 1) THEN MonthOfDay(y, m + 1, n) ELSE m

FromOrdinal(ord) ==
    LET n0   == ord - 1
        n400 == n0 \div 146097
        r400 == n0 % 146097
        n100 == r400 \div 36524
        r100 == r400 % 36524
        n4   == r100 \div 1461
        r4   == r100 % 1461
        n1   == r4 \div 365
        n    == r4 % 365
        y    == n400 * 400 + 1 + n100 * 100 + n4 * 4 + n1
    IN  IF n1 = 4 \/ n100 = 4 THEN << y - 1, 12, 31 >>
        ELSE LET m == MonthOfDay(y, 1, n)
             IN  << y, m, n - DaysBeforeMonth(y, m) + 1 >>

AddDays(dt, i) == FromOrdinal(ToOrdinal(dt) + i)

-----------------------------------------------------------------------------
(* generate_price_forecast.  jit[i] is the i-th random.uniform(-50, 50)    *)
(* draw, in mils.                                                          *)

JitterMax == 50000

Baseline(md) == IF TruthyPrices(md) = << >> THEN 0 ELSE MedianMils(TruthyPrices(md))

ForecastPoint(md, dt, i, j) ==
    [ date |-> AddDays(dt, i), forecast_price |-> Round2(Baseline(md) + j, 1000) ]

\* A loop that starts at the evaluation date itself: range(days).
generate_price_forecast_from_today(md, n, dt, jit) ==
    [ i \in 1..n |-> ForecastPoint(md, dt, i - 1, jit[i]) ]

\* A forecast that never draws: the bare baseline.
generate_price_forecast_no_jitter(md, n, dt, jit) ==
    [ i \in 1..n |-> ForecastPoint(md, dt, i, 0) ]

generate_price_forecast(md, n, dt, jit) ==
    [ i \in 1..n |-> ForecastPoint(md, dt, i, jit[i]) ]

-----------------------------------------------------------------------------
(* The summary of get_market_terminal.                                     *)

\* The first record of the non-empty md with the greatest (least)
\* modal_price: max() and min() keep the first of equal keys.
HighestMarket(md) ==
    md[CHOOSE i \in 1..Len(md) :
          /\ \A j \in 1..Len(md) : md[j].modal_price <= md[i].modal_price
          /\ \A j \in 1..(i - 1) : md[j].modal_price < md[i].modal_price]

LowestMarket(md) ==
    md[CHOOSE i \in 1..Len(md) :
          /\ \A j \in 1..Len(md) : md[j].modal_price >= md[i].modal_price
          /\ \A j \in 1..(i - 1) : md[j].modal_price > md[i].modal_price]

\* avg_price, in hundredths.
AveragePrice(md) ==
    IF TruthyPrices(md) = << >> THEN 0
    ELSE Round2(Sum(TruthyPrices(md)), Len(TruthyPrices(md)))

\* max() and min() of an empty sequence raise ValueError.
SummaryRaises(md) == md = << >>

\* The summary object; prices in hundredths.
Summary(md, commodity) ==
    [ commodity      |-> Capitalize(commodity),
      average_price  |-> AveragePrice(md),
      highest_price  |-> 100 * HighestMarket(md).modal_price,
      highest_market |-> << HighestMarket(md).market, HighestMarket(md).state >>,
      lowest_price   |-> 100 * LowestMarket(md).modal_price,
      lowest_market  |-> << LowestMarket(md).market, LowestMarket(md).state >> ]

-----------------------------------------------------------------------------
(* fetch_mandi_records and fetch_weather_for_location.                     *)

FallbackRecord(market, state, district, min, max, modal, dt) ==
    [ is_map       |-> TRUE,
      state        |-> state,
      district     |-> district,
      market       |-> market,
      variety      |-> "Common",
      arrival_date |-> dt,
      min_price    |-> NumStr(min),
      max_price    |-> NumStr(max),
      modal_price  |-> NumStr(modal),
      unit         |-> "Rs/Quintal" ]

\* The static records used when the provider fails or sends none; their
\* arrival_date is the day of the call.
FallbackRecords(dt) ==
    << FallbackRecord("Indore", "Madhya Pradesh", "Indore", 2200, 2450, 2350, dt),
       FallbackRecord("Nagpur", "Maharashtra", "Nagpur", 2250, 2480, 2380, dt) >>

\* reply.ok is FALSE when the request or its decoding raised; reply.data is
\* the "records" of the reply.  An empty batch raises inside the try.
fetch_mandi_records(reply, dt) ==
    IF reply.ok /\ reply.data # << >> THEN reply.data ELSE FallbackRecords(dt)

\* The "current" of a weather snapshot: JSON null, or a mapping whose
\* precip_mm and temp_c are absent, null or numbers.
NullCurrent == [ t |-> "null", precip_mm |-> Absent, temp_c |-> Absent ]

Current(precip, temp) == [ t |-> "map", precip_mm |-> precip, temp_c |-> temp ]

EmptyCurrent == Current(Absent, Absent)

\* reply.ok is FALSE when the request, its decoding or the reading of its
\* "location" raised; reply.current is the "current" of the reply, if it has
\* one.  The place name and country the provider reports are left out.
fetch_weather_for_location(reply, location) ==
    [ location |-> location,
      country  |-> "India",
      current  |-> IF reply.ok /\ reply.has_current THEN reply.current
                   ELSE EmptyCurrent ]

-----------------------------------------------------------------------------
(* fallback_structured_insight.                                            *)

TopN == 5

\* The first n entries of s: s[:n].
Take(s, n) == SubSeq(s, 1, IF Len(s) < n THEN Len(s) ELSE n)

\* Insert record m into s, ascending by key modal_price (sign = 1) or by key
\* -modal_price (sign = -1), after the records of equal key: sorted() is stable.
RECURSIVE InsertByPrice(_, _, _)
InsertByPrice(s, m, sign) ==
    IF s = << >> THEN << m >>
    ELSE IF sign * m.modal_price < sign * Head(s).modal_price THEN << m >> \o s
    ELSE << Head(s) >> \o InsertByPrice(Tail(s), m, sign)

RECURSIVE SortByPrice(_, _)
SortByPrice(s, sign) ==
    IF s = << >> THEN << >>
    ELSE InsertByPrice(SortByPrice(SubSeq(s, 1, Len(s) - 1), sign), s[Len(s)], sign)

\* {"market": ..., "state": ..., "price": ...} of each record, price in hundredths.
MarketEntries(s) ==
    [ i \in 1..Len(s) |->
        [ market |-> s[i].market, state |-> s[i].state, price |-> 100 * s[i].modal_price ] ]

\* Every normalized record has a modal_price, so the `is not None` filter
\* keeps them all.
\* A descending order obtained by reversing the ascending one, which turns
\* the records of equal price around.
SellHigh_reversed(md) ==
    LET up == SortByPrice(md, 1)
    IN  MarketEntries(Take([ i \in 1..Len(up) |-> up[Len(up) + 1 - i] ], TopN))

SellHigh(md) == MarketEntries(Take(SortByPrice(md, -1), TopN))

BuyLow(md) == MarketEntries(Take(SortByPrice(md, 1), TopN))

\* x > limit for a value read with .get(key, 0): None.get (current is null)
\* raises AttributeError, None > limit raises TypeError.
ReadingRaises(current, x) == current.t = "null" \/ x.t = "null"

Exceeds(x, limit) == x.t = "num" /\ x.v > limit

\* The yield heuristic raises on a null current or a null reading.
FallbackRaises(w) ==
    \/ ReadingRaises(w.current, w.current.precip_mm)
    \/ ReadingRaises(w.current, w.current.temp_c)

YieldFactors(w) ==
    LET rain == IF Exceeds(w.current.precip_mm, 0) THEN << "recent rainfall" >> ELSE << >>
        heat == IF Exceeds(w.current.temp_c, 34) THEN << "high temperatures" >> ELSE << >>
    IN  IF rain \o heat = << >> THEN << "stable weather", "no major issues" >>
        ELSE rain \o heat

\* next_price and baseline in hundredths.
NextPrice(sm, fc) == IF fc # << >> THEN fc[1].forecast_price ELSE sm.average_price

\* A heuristic that never looks at the forecast.
Recommendation_from_baseline(sm, fc) ==
    IF 100 * sm.average_price > 102 * sm.average_price
    THEN [ action |-> "SELL", confidence |-> 80,
           reason |-> "Prices are trending upward - ideal for selling." ]
    ELSE IF 100 * sm.average_price < 98 * sm.average_price
    THEN [ action |-> "BUY", confidence |-> 75,
           reason |-> "Prices slightly down - opportunity to buy." ]
    ELSE [ action |-> "HOLD", confidence |-> 70,
           reason |-> "Market stable - hold for short term." ]

Recommendation(sm, fc) ==
    IF 100 * NextPrice(sm, fc) > 102 * sm.average_price
    THEN [ action |-> "SELL", confidence |-> 80,
           reason |-> "Prices are trending upward - ideal for selling." ]
    ELSE IF 100 * NextPrice(sm, fc) < 98 * sm.average_price
    THEN [ action |-> "BUY", confidence |-> 75,
           reason |-> "Prices slightly down - opportunity to buy." ]
    ELSE [ action |-> "HOLD", confidence |-> 70,
           reason |-> "Market stable - hold for short term." ]

FallbackInsight(md, sm, fc, w) ==
    [ recommendation         |-> Recommendation(sm, fc),
      yield_outlook          |-> [ change_percent |-> "+0.3%", factors |-> YieldFactors(w) ],
      price_forecast_comment |-> "Minor short-term variations expected.",
      market_sentiment       |-> [ overall |-> "neutral",
                                   keywords |-> << "steady", "moderate" >> ],
      optimal_market         |-> [ sell_high |-> SellHigh(md), buy_low |-> BuyLow(md) ],
      ai_summary             |-> Recommendation(sm, fc).reason,
      reason                 |-> Recommendation(sm, fc).reason ]

\* What a call that raised leaves in place of a value.
NoValue == [ raised |-> TRUE ]

Returned(v) == [ raised |-> FALSE, value |-> v ]

fallback_structured_insight(md, sm, fc, w) ==
    IF FallbackRaises(w) THEN NoValue ELSE Returned(FallbackInsight(md, sm, fc, w))

-----------------------------------------------------------------------------
(* generate_structured_ai_insight.  The collaborator's outcome a:          *)
(* a.outcome is "raises" (the call raised), "no_text" (the reply's text is *)
(* None, so .strip() raises) or "text"; a.json says what the text is:      *)
(* "invalid" (no JSON), "other" (JSON, not a mapping) or "map";            *)
(* a.has_recommendation whether the mapping has the key; a.parsed the      *)
(* mapping.                                                                *)

\* json.loads succeeded and the shape test passed.
ParsedAccepted(a) == a.outcome = "text" /\ a.json = "map" /\ a.has_recommendation

\* A resolver that takes any mapping the collaborator sends.
generate_structured_ai_insight_any_mapping(a, md, sm, fc, w) ==
    IF a.outcome = "text" /\ a.json = "map" THEN Returned(a.parsed)
    ELSE fallback_structured_insight(md, sm, fc, w)

generate_structured_ai_insight(a, md, sm, fc, w) ==
    IF ParsedAccepted(a) THEN Returned(a.parsed)
    ELSE fallback_structured_insight(md, sm, fc, w)

-----------------------------------------------------------------------------
(* Inputs of the model: what the provider may send, the dates and the      *)
(* random draws a run may see.                                             *)

\* The market of the i-th record of a batch.
MarketName(i) ==
    CASE i = 1 -> "Indore"
      [] i = 2 -> "Nagpur"
      [] i = 3 -> "Pune"
      [] i = 4 -> "Delhi"
      [] i = 5 -> "Mumbai"
      [] i = 6 -> "Kolkata"
      [] i = 7 -> "Chennai"
      [] OTHER -> "Jaipur"

\* The arrival date of the i-th record of a batch: ten days after the one
\* before it.
ArrivalDate(i) == AddDays(<< 2024, 1, 1 >>, 10 * (i - 1))

\* A raw record that is a mapping.
RawRecord(i, modal, min, max) ==
    [ is_map       |-> TRUE,
      state        |-> "Madhya Pradesh",
      district     |-> "",
      market       |-> MarketName(i),
      commodity    |-> "Wheat",
      variety      |-> "Common",
      arrival_date |-> ArrivalDate(i),
      min_price    |-> min,
      max_price    |-> max,
      modal_price  |-> modal,
      unit         |-> "Rs/Quintal" ]

\* An entry of the batch that is no mapping (a string, a number, null).
NonMapping(i) == [ RawRecord(i, Absent, Absent, Absent) EXCEPT !.is_map = FALSE ]

ModalRaws == { Absent, Null, Junk, NumStr(100), Num(0) }

\* (min_price, max_price) of a raw record.
MinMaxRaws == { << Junk, Absent >>, << NumStr(90), NumStr(110) >>, << Null, Junk >> }

\* What an entry of a batch may be: no mapping, or a mapping with these
\* modal_price, min_price and max_price.
RawShapes ==
    { [ is_map |-> TRUE, modal |-> m, min |-> mm[1], max |-> mm[2] ] :
        m \in ModalRaws, mm \in MinMaxRaws }
        \cup { [ is_map |-> FALSE, modal |-> Absent, min |-> Absent, max |-> Absent ] }

\* Every batch of n raw records.
RawBatches(n) ==
    { [ i \in 1..n |-> IF b[i].is_map THEN RawRecord(i, b[i].modal, b[i].min, b[i].max)
                       ELSE NonMapping(i) ] : b \in [1..n -> RawShapes] }

\* Batches whose records differ in the modal price only.
PriceRaws == { Junk, NumStr(0), NumStr(100), NumStr(200) }

PriceBatches(n) == { [ i \in 1..n |-> RawRecord(i, b[i], NumStr(90), NumStr(110)) ] :
                       b \in [1..n -> PriceRaws] }

EvalDates == { << 2024, 2, 27 >>, << 2023, 12, 30 >>, << 2025, 6, 15 >> }

\* Draws of random.uniform(-50, 50), in mils.
Jitters == { -JitterMax, 1234, JitterMax }

NoSummary == [ commodity |-> "", average_price |-> 0, highest_price |-> 0,
               highest_market |-> "", lowest_price |-> 0, lowest_market |-> "" ]

NoWeather == [ location |-> "", country |-> "", current |-> EmptyCurrent ]

NoAi == [ outcome |-> "none", json |-> "invalid", has_recommendation |-> FALSE,
         parsed |-> << >> ]

NoInsight == [ source |-> "none" ]

\* No reply of the distance collaborator yet.
NoDistanceReply == [ ok |-> FALSE, status |-> "", km |-> Absent ]

\* A trade query with nothing resolved yet.
TradeQuery(commodity, source, destination, qty_tonnes, domestic) ==
    [ commodity |-> commodity, source |-> source, destination |-> destination,
      qty_tonnes |-> qty_tonnes, domestic |-> domestic, lookup |-> "none",
      buy_price |-> 0, sell_price |-> 0, distance_reply |-> NoDistanceReply,
      distance_km |-> 0, rate |-> 0,
      logistics_cost |-> 0, net_profit |-> 0, roi |-> 0, profitable |-> FALSE ]

NoTrade == TradeQuery("", << >>, << >>, 0, FALSE)

\* The call sites of the three handlers.
Sites == { "mandi", "weather", "ai", "distance", "ai_summary", "ai_crops" }

\* No request sent yet.
NoCalls == [ site \in Sites |-> [ requests |-> 0, failed |-> FALSE ] ]

\* requests.get(...) / client.models.generate_content(...) at a call site:
\* the one request the site's code sends, and whether the call failed.
Request(c, site, failed) ==
    [ c EXCEPT ![site] = [ requests |-> @.requests + 1, failed |-> failed ] ]

\* The variables a specification does not use, at rest.
Idle ==
    /\ summary = NoSummary
    /\ weather = NoWeather
    /\ ai = NoAi
    /\ insight = NoInsight
    /\ status = 0
    /\ trade = NoTrade
    /\ calls = NoCalls

-----------------------------------------------------------------------------
(* normalize_mandi_records, called on its own.                             *)

InitNormalize ==
    /\ pc = "call"
    /\ \E n \in 0..MaxRecords : records \in RawBatches(n)
    /\ market_data = << >>
    /\ today = << 2024, 2, 27 >>
    /\ days = 0
    /\ price_forecast = << >>
    /\ jitter = << >>
    /\ raised = FALSE
    /\ Idle

\* One call: every exception of the loop body is caught inside the loop, so
\* the call returns.
Normalize ==
    /\ pc = "call"
    /\ market_data' = normalize_mandi_records(records, "wheat")
    /\ raised' = FALSE
    /\ pc' = "returned"
    /\ UNCHANGED << records, summary, weather, today, days, price_forecast,
                    jitter, ai, insight, status, trade, calls >>

NextNormalize == Normalize

SpecNormalize == InitNormalize /\ [][NextNormalize]_vars

-----------------------------------------------------------------------------
(* generate_price_forecast, called on its own.                             *)

InitForecast ==
    /\ pc = "call"
    /\ \E n \in 0..MaxRecords : records \in PriceBatches(n)
    /\ market_data = normalize_mandi_records(records, "wheat")
    /\ today \in EvalDates
    /\ days \in 0..MaxDays
    /\ price_forecast = << >>
    /\ jitter = << >>
    /\ raised = FALSE
    /\ Idle

\* One call and its draws.
Forecast ==
    /\ pc = "call"
    /\ \E jit \in [1..days -> Jitters] :
          /\ jitter' = jit
          /\ price_forecast' = generate_price_forecast(market_data, days, today, jit)
    /\ pc' = "returned"
    /\ UNCHANGED << records, market_data, summary, weather, today, days,
                    ai, insight, status, raised, trade, calls >>

NextForecast == Forecast

SpecForecast == InitForecast /\ [][NextForecast]_vars

-----------------------------------------------------------------------------
(* Properties of normalize_mandi_records.                                  *)

C10_Parses(x) == x.t \in {"numstr", "num"}

\* The positions of the raw records whose modal_price parses as a number.
C10_Kept == { i \in 1..Len(records) :
                records[i].is_map /\ C10_Parses(records[i].modal_price) }

\* The position of the k-th such record.
C10_Index(k) == CHOOSE i \in C10_Kept : Cardinality({ j \in C10_Kept : j < i }) = k - 1

C10_Field(x) == IF C10_Parses(x) THEN Float(x.v) ELSE None

\* C10: normalize_mandi_records never raises and returns exactly the raw
\* records whose modal_price parses as a number, in provider order: the
\* output is no longer than the input, an unparsable min_price or max_price
\* becomes null without dropping the record, and every output record carries
\* its parsed modal_price.
C10_NormalizeKeepsParsable ==
    pc = "returned" =>
        /\ ~raised
        /\ Len(market_data) = Cardinality(C10_Kept)
        /\ Len(market_data) <= Len(records)
        /\ \A k \in 1..Len(market_data) :
              LET r == records[C10_Index(k)]
                  m == market_data[k]
              IN  /\ m.market = r.market
                  /\ m.arrival_date = r.arrival_date
                  /\ m.modal_price = r.modal_price.v
                  /\ m.min_price = C10_Field(r.min_price)
                  /\ m.max_price = C10_Field(r.max_price)

\* A batch with a non-mapping entry, a dropped record and two kept ones, one
\* of them with an unparsable min_price.
C10_Witness ==
    /\ pc = "returned"
    /\ Len(records) = 3
    /\ ~records[1].is_map
    /\ Len(market_data) = 2
    /\ market_data[1].min_price = None
    /\ market_data[1].market = "Nagpur"
    /\ market_data[2].max_price # None

-----------------------------------------------------------------------------
(* Properties of generate_price_forecast.                                  *)

C8_NextDay(dt) ==
    IF dt[3] < DaysInMonth(dt[1], dt[2]) THEN << dt[1], dt[2], dt[3] + 1 >>
    ELSE IF dt[2] < 12 THEN << dt[1], dt[2] + 1, 1 >>
    ELSE << dt[1] + 1, 1, 1 >>

RECURSIVE C8_Later(_, _)
C8_Later(dt, i) == IF i = 0 THEN dt ELSE C8_NextDay(C8_Later(dt, i - 1))

\* C8: generate_price_forecast returns exactly `days` points, the i-th dated
\* i days after the evaluation date: the first is the day after it and each
\* next one is the following calendar day.
C8_ForecastLengthAndDates ==
    pc = "returned" =>
        /\ Len(price_forecast) = days
        /\ \A i \in 1..days : price_forecast[i].date = C8_Later(today, i)
        /\ \A i \in 1..(days - 1) :
              price_forecast[i + 1].date = C8_NextDay(price_forecast[i].date)

\* A forecast over no records whose dates run over the end of a month.
C8_Witness ==
    /\ pc = "returned"
    /\ market_data = << >>
    /\ days >= 2
    /\ Len(price_forecast) = days
    /\ price_forecast[days].date[2] # today[2]

\* The k-th smallest entry of the non-empty sequence s.
C7_Kth(s, k) ==
    CHOOSE x \in { s[i] : i \in 1..Len(s) } :
        /\ Cardinality({ i \in 1..Len(s) : s[i] < x }) < k
        /\ Cardinality({ i \in 1..Len(s) : s[i] <= x }) >= k

\* The median of the sequence s in mils, 0 if it is empty.
C7_Median(s) ==
    IF s = << >> THEN 0
    ELSE IF Len(s) % 2 = 1 THEN 1000 * C7_Kth(s, (Len(s) + 1) \div 2)
    ELSE 500 * (C7_Kth(s, Len(s) \div 2) + C7_Kth(s, Len(s) \div 2 + 1))

C7_Prices == [ i \in 1..Len(market_data) |-> market_data[i].modal_price ]

C7_NonZeroPrices == SelectSeq(C7_Prices, LAMBDA x : x # 0)

\* The claimed forecast in hundredths: baseline the median of the modal
\* prices, trend the slope between the earliest and the latest dated record
\* (the first and the last of a batch), 0 with fewer than two records.
C7_Claimed(i) ==
    LET n  == Len(market_data)
        dd == IF n < 2 THEN 1
              ELSE ToOrdinal(market_data[n].arrival_date)
                       - ToOrdinal(market_data[1].arrival_date)
        dp == IF n < 2 THEN 0
              ELSE market_data[n].modal_price - market_data[1].modal_price
    IN  Round2(C7_Median(C7_Prices) * dd + 1000 * dp * i, 1000 * dd)

C7_ClaimedForecast ==
    /\ \A i \in 1..Len(price_forecast) :
          price_forecast[i].forecast_price = C7_Claimed(i)
    /\ market_data = << >> =>
          \A i \in 1..Len(price_forecast) : price_forecast[i].forecast_price = 0

C7_Abs(x) == IF x < 0 THEN -x ELSE x

-----------------------------------------------------------------------------
(* GET /terminal/ : get_market_terminal, one step per blocking call.       *)

TerminalDays == 7

\* What the market-price provider may do: fail, send no records, send a batch.
MandiReplies ==
    { [ ok |-> FALSE, data |-> << >> ], [ ok |-> TRUE, data |-> << >> ] }
        \cup { [ ok |-> TRUE, data |-> b ] :
                 b \in UNION { PriceBatches(n) : n \in 1..MaxRecords } }

\* What the weather provider may do.
WeatherReplies ==
    { [ ok |-> FALSE, has_current |-> FALSE, current |-> EmptyCurrent ],
      [ ok |-> TRUE, has_current |-> FALSE, current |-> EmptyCurrent ] }
        \cup { [ ok |-> TRUE, has_current |-> TRUE, current |-> c ] :
                 c \in { NullCurrent, Current(Null, Num(30)), Current(Num(5), Null),
                         Current(Num(0), Num(30)), Current(Num(5), Num(36)) } }

\* The draws of one forecast: the first drawn freely, the later ones alike.
JitterSeqs(n) == { [ i \in 1..n |-> IF i = 1 THEN a ELSE b ] : a, b \in Jitters }

\* A mapping the collaborator may send.
CollabInsight(action, confidence, overall) ==
    [ recommendation         |-> [ action |-> action, confidence |-> confidence,
                                   reason |-> "collaborator" ],
      yield_outlook          |-> [ change_percent |-> "+2.4%",
                                   factors |-> << "collaborator" >> ],
      price_forecast_comment |-> "collaborator",
      market_sentiment       |-> [ overall |-> overall,
                                   keywords |-> << "export", "demand" >> ],
      optimal_market         |-> [ sell_high |-> << >>, buy_low |-> << >> ],
      ai_summary             |-> "collaborator",
      reason                 |-> "collaborator" ]

AiReply(outcome, json, has_recommendation, parsed) ==
    [ outcome |-> outcome, json |-> json, has_recommendation |-> has_recommendation,
      parsed |-> parsed ]

\* What the text-generation collaborator may do, once it answers.
AiReplies ==
    { AiReply("raises", "invalid", FALSE, << >>),
      AiReply("no_text", "invalid", FALSE, << >>),
      AiReply("text", "invalid", FALSE, << >>),
      AiReply("text", "other", FALSE, << >>),
      AiReply("text", "map", FALSE, CollabInsight("SELL", 81, "positive")),
      AiReply("text", "map", TRUE, CollabInsight("SELL", 81, "positive")),
      AiReply("text", "map", TRUE, CollabInsight("WAIT", 150, "bullish")) }

Init ==
    /\ pc = "start"
    /\ records = << >>
    /\ market_data = << >>
    /\ today = << 2024, 2, 27 >>
    /\ days = TerminalDays
    /\ price_forecast = << >>
    /\ jitter = << >>
    /\ raised = FALSE
    /\ Idle

\* Lines 47-66: fetch, normalize, summarise.  max() of no records raises, and
\* the handler's except turns that into a 500.
TerminalFetch ==
    /\ pc = "start"
    /\ \E reply \in MandiReplies :
          /\ records' = fetch_mandi_records(reply, today)
          /\ market_data' = normalize_mandi_records(records', "wheat")
          /\ calls' = Request(calls, "mandi", ~reply.ok)
    /\ IF SummaryRaises(market_data')
       THEN /\ summary' = summary
            /\ status' = 500
            /\ pc' = "done"
       ELSE /\ summary' = Summary(market_data', "wheat")
            /\ status' = status
            /\ pc' = "weather"
    /\ UNCHANGED << weather, today, days, price_forecast, jitter, ai, insight,
                    raised, trade >>

\* Lines 69-72 and 242-286: weather, forecast, and the prompt is sent.
TerminalWeather ==
    /\ pc = "weather"
    /\ \E reply \in WeatherReplies :
          /\ weather' = fetch_weather_for_location(reply, "Indore")
          /\ calls' = Request(Request(calls, "weather", ~reply.ok), "ai", FALSE)
    /\ \E jit \in JitterSeqs(days) :
          /\ jitter' = jit
          /\ price_forecast' = generate_price_forecast(market_data, days, today, jit)
    /\ pc' = "await_ai"
    /\ UNCHANGED << records, market_data, summary, today, days, ai, insight,
                    status, raised, trade >>

\* Lines 283-305 and 86-108: the collaborator answers, the resolver returns
\* or raises, and the handler responds.
AiResponds ==
    /\ pc = "await_ai"
    /\ \E a \in AiReplies :
          /\ ai' = a
          /\ calls' = [ calls EXCEPT !["ai"].failed = a.outcome = "raises" ]
          /\ LET r == generate_structured_ai_insight(a, market_data, summary,
                                                     price_forecast, weather)
             IN  IF r.raised
                 THEN /\ insight' = insight
                      /\ raised' = TRUE
                      /\ status' = 500
                 ELSE /\ insight' = r.value
                      /\ raised' = FALSE
                      /\ status' = 200
    /\ pc' = "done"
    /\ UNCHANGED << records, market_data, summary, weather, today, days,
                    price_forecast, jitter, trade >>

Next == TerminalFetch \/ TerminalWeather \/ AiResponds

Spec == Init /\ [][Next]_vars

\* The two requests.get calls carry a timeout, so their steps always come;
\* the call to the collaborator carries none, so nothing makes it answer.
FairSpec == Spec /\ WF_vars(TerminalFetch) /\ WF_vars(TerminalWeather)

-----------------------------------------------------------------------------
(* Properties of GET /terminal/.                                           *)

\* The resolver was called and the call is over.
ResolverDone == pc = "done" /\ ai.outcome # "none"

\* C2: generate_structured_ai_insight never propagates an error: whatever the
\* collaborator does and whatever snapshot fetch_weather_for_location
\* returned, the call returns an insight.
C2_ResolverNeverRaises == ResolverDone => ~raised /\ status = 200

\* C3: every request to GET /terminal/ eventually produces a response, even
\* when the collaborator never answers.
C3_AlwaysResponds == <>(pc = "done")

\* C4: when every record of the provider's batch is dropped, the request
\* still ends in a shaped response whose summary is empty: average 0, blank
\* highest and lowest.
C4_EmptySetShapedResponse ==
    pc = "done" /\ market_data = << >> =>
        /\ status = 200
        /\ summary.average_price = 0
        /\ summary.highest_market = ""
        /\ summary.lowest_market = ""

\* The collaborator answered with text that is no JSON, or JSON that is no
\* mapping with a "recommendation" key.
C5_Rejected ==
    /\ ResolverDone
    /\ ai.outcome = "text"
    /\ ai.json # "map" \/ ~ai.has_recommendation

\* C5: on such an answer the resolver returns what fallback_structured_insight
\* returns for the same records, summary, forecast and weather (and raises
\* when it raises); nothing of the collaborator's text is in the result.
C5_RejectedGivesFallback ==
    C5_Rejected =>
        LET f == fallback_structured_insight(market_data, summary, price_forecast, weather)
        IN  /\ raised = f.raised
            /\ ~raised =>
                  /\ insight = f.value
                  /\ insight.recommendation.reason # "collaborator"
                  /\ insight.ai_summary # "collaborator"
                  /\ insight.market_sentiment.overall = "neutral"

\* A mapping without the key was sent, and the fallback's BUY came back.
C5_Witness ==
    /\ C5_Rejected
    /\ ai.json = "map"
    /\ status = 200
    /\ insight.recommendation.action = "BUY"
    /\ Len(insight.optimal_market.sell_high) = 2

\* C6: every insight the resolver returns has its action among BUY, HOLD and
\* SELL, its confidence in 0..100 and its sentiment among positive, neutral
\* and negative.
C6_InsightInRange ==
    ResolverDone /\ ~raised =>
        /\ insight.recommendation.action \in { "BUY", "HOLD", "SELL" }
        /\ insight.recommendation.confidence \in 0..100
        /\ insight.market_sentiment.overall \in { "positive", "neutral", "negative" }

\* C9: summary.average_price is the mean, rounded to two decimals, of the
\* modal_price of every normalized record, a price of 0 counted in the sum
\* and in the count.
C9_AverageCountsZero ==
    pc \in { "weather", "await_ai" } \/ ResolverDone =>
        summary.average_price =
            Round2(Sum([ i \in 1..Len(market_data) |-> market_data[i].modal_price ]),
                   Len(market_data))

-----------------------------------------------------------------------------
(* Text: a string is the sequence of its characters.                       *)

UpperLetters ==
    << "A", "B", "C", "D", "E", "F", "G", "H", "I", "J", "K", "L", "M", "N", "O", "P", "Q", "R", "S", "T", "U", "V", "W", "X", "Y", "Z" >>

LowerLetters ==
    << "a", "b", "c", "d", "e", "f", "g", "h", "i", "j", "k", "l", "m", "n", "o", "p", "q", "r", "s", "t", "u", "v", "w", "x", "y", "z" >>

LowerChar(c) ==
    IF \E i \in 1..26 : UpperLetters[i] = c
    THEN LowerLetters[CHOOSE i \in 1..26 : UpperLetters[i] = c]
    ELSE c

\* str.lower()
Lower(w) == [ i \in 1..Len(w) |-> LowerChar(w[i]) ]

\* needle in hay
Contains(hay, needle) ==
    \E k \in 0..(Len(hay) - Len(needle)) :
        \A i \in 1..Len(needle) : hay[k + i] = needle[i]

\* Series.str.contains(needle, case=False) for a needle of letters and spaces.
ContainsNoCase(hay, needle) == Contains(Lower(hay), Lower(needle))

\* The characters of the names the model uses.
Chars(s) ==
    CASE s = "Indore" -> << "I", "n", "d", "o", "r", "e" >>
      [] s = "Nagpur" -> << "N", "a", "g", "p", "u", "r" >>
      [] s = "Pune" -> << "P", "u", "n", "e" >>
      [] s = "Delhi" -> << "D", "e", "l", "h", "i" >>
      [] s = "Mumbai" -> << "M", "u", "m", "b", "a", "i" >>
      [] s = "Dubai" -> << "D", "u", "b", "a", "i" >>
      [] s = "wheat" -> << "w", "h", "e", "a", "t" >>
      [] s = "Wheat" -> << "W", "h", "e", "a", "t" >>
      [] s = "WHEAT" -> << "W", "H", "E", "A", "T" >>
      [] s = "Rice" -> << "R", "i", "c", "e" >>
      [] OTHER -> << >>

-----------------------------------------------------------------------------
(* The trade simulation: get_distance_km, estimate_distance_fallback,      *)
(* compute_trade_profit and simulate_trade.                                *)

Routes ==
    << [ a |-> << "m", "u", "m", "b", "a", "i" >>,
         b |-> << "n", "o", "v", "o", "r", "o", "s", "s", "i", "y", "s", "k" >>, d |-> 4800 ],
       [ a |-> << "m", "u", "m", "b", "a", "i" >>,
         b |-> << "d", "u", "b", "a", "i" >>, d |-> 1900 ],
       [ a |-> << "m", "u", "m", "b", "a", "i" >>,
         b |-> << "s", "i", "n", "g", "a", "p", "o", "r", "e" >>, d |-> 3900 ],
       [ a |-> << "k", "o", "l", "k", "a", "t", "a" >>,
         b |-> << "d", "h", "a", "k", "a" >>, d |-> 250 ],
       [ a |-> << "c", "h", "e", "n", "n", "a", "i" >>,
         b |-> << "j", "a", "k", "a", "r", "t", "a" >>, d |-> 3600 ],
       [ a |-> << "m", "u", "m", "b", "a", "i" >>,
         b |-> << "n", "e", "w", " ", "y", "o", "r", "k" >>, d |-> 12500 ],
       [ a |-> << "m", "u", "m", "b", "a", "i" >>,
         b |-> << "r", "o", "t", "t", "e", "r", "d", "a", "m" >>, d |-> 7100 ],
       [ a |-> << "p", "u", "n", "e" >>,
         b |-> << "d", "e", "l", "h", "i" >>, d |-> 1450 ],
       [ a |-> << "i", "n", "d", "o", "r", "e" >>,
         b |-> << "m", "u", "m", "b", "a", "i" >>, d |-> 585 ],
       [ a |-> << "n", "a", "g", "p", "u", "r" >>,
         b |-> << "k", "o", "l", "k", "a", "t", "a" >>, d |-> 970 ] >>

DefaultDistance == 5000

\* The first route of the table, in its order, whose ends are in the names.
\* A lookup in which a later route of the table wins over an earlier one.
estimate_distance_fallback_last(source, destination) ==
    LET hits == { i \in 1..Len(Routes) :
                    /\ Contains(Lower(source), Routes[i].a)
                    /\ Contains(Lower(destination), Routes[i].b) }
    IN  IF hits = { } THEN DefaultDistance
        ELSE Routes[CHOOSE i \in hits : \A j \in hits : i >= j].d

estimate_distance_fallback(source, destination) ==
    LET hits == { i \in 1..Len(Routes) :
                    /\ Contains(Lower(source), Routes[i].a)
                    /\ Contains(Lower(destination), Routes[i].b) }
    IN  IF hits = { } THEN DefaultDistance
        ELSE Routes[CHOOSE i \in hits : \A j \in hits : i <= j].d

\* reply.ok is FALSE when the request raised or the reply has no element;
\* reply.status is the element's status, reply.km its distance text less
\* " km" and the commas.
get_distance_km(reply, source, destination) ==
    IF reply.ok /\ reply.status = "OK" /\ FloatParses(reply.km) THEN reply.km.v
    ELSE estimate_distance_fallback(source, destination)

\* buy * qty = 0 with buy > 0 divides by zero.
ProfitRaises(buy_price, qty_tonnes) == buy_price > 0 /\ buy_price * qty_tonnes = 0

\* logistics_cost and net_profit in rupees, roi in hundredths of a percent.
\* A profit whose logistics cost grows with the quantity carried.
compute_trade_profit_per_tonne(buy_price, sell_price, distance_km, qty_tonnes, rate) ==
    LET logistics_cost == rate * distance_km * qty_tonnes
        net_profit == (sell_price - buy_price) * qty_tonnes - logistics_cost
    IN  [ logistics_cost |-> logistics_cost, net_profit |-> net_profit,
          roi |-> IF buy_price > 0
                  THEN Round2(100 * net_profit, buy_price * qty_tonnes) ELSE 0 ]

compute_trade_profit(buy_price, sell_price, distance_km, qty_tonnes, rate) ==
    LET logistics_cost == rate * distance_km
        net_profit == (sell_price - buy_price) * qty_tonnes - logistics_cost
    IN  [ logistics_cost |-> logistics_cost,
          net_profit     |-> net_profit,
          roi            |-> IF buy_price > 0
                             THEN Round2(100 * net_profit, buy_price * qty_tonnes)
                             ELSE 0 ]

\* The positions of the rows whose column holds the needle.
Matches(names, needle) == { i \in 1..Len(names) : ContainsNoCase(names[i], needle) }

First(S) == CHOOSE i \in S : \A j \in S : i <= j

MarketColumn(md) == [ i \in 1..Len(md) |-> Chars(md[i].market) ]

\* The price lookup of the domestic branch.  A frame built from no records
\* has no "market" column, so df["market"] raises KeyError; the not-found
\* HTTPException is raised inside the handler's try.
DomesticLookup(md, source, destination) ==
    IF md = << >> THEN [ outcome |-> "KeyError" ]
    ELSE IF Matches(MarketColumn(md), source) = { }
              \/ Matches(MarketColumn(md), destination) = { }
    THEN [ outcome |-> "HTTPException404" ]
    ELSE [ outcome    |-> "found",
           buy_price  |-> 10 * md[First(Matches(MarketColumn(md), source))].modal_price,
           sell_price |-> 10 * md[First(Matches(MarketColumn(md), destination))].modal_price ]

\* The rows of the international dataset for the commodity.
CommodityRows(table, commodity) ==
    SelectSeq(table, LAMBDA row : Lower(Chars(row.Commodity)) = Lower(Chars(commodity)))

RegionColumn(rows) == [ i \in 1..Len(rows) |-> Chars(rows[i].Region) ]

\* The price lookup of the international branch; dataset.exists is FALSE
\* when the file is missing.
InternationalLookup(dataset, commodity, source, destination) ==
    LET rows == CommodityRows(dataset.rows, commodity)
    IN  IF ~dataset.exists THEN [ outcome |-> "FileNotFoundError" ]
        ELSE IF Matches(RegionColumn(rows), source) = { }
                  \/ Matches(RegionColumn(rows), destination) = { }
        THEN [ outcome |-> "HTTPException404" ]
        ELSE [ outcome    |-> "found",
               buy_price  |-> rows[First(Matches(RegionColumn(rows), source))].Price_INR_per_Tonne,
               sell_price |-> rows[First(Matches(RegionColumn(rows), destination))].Price_INR_per_Tonne ]

\* The status of a request whose lookup raised: `except Exception` catches
\* the HTTPException too, and the handler raises a 500 in its place.
LookupStatus(outcome) == 500

\* Source and destination names a caller may send.
PlaceQueries == { << "i", "n", "d" >>, << "N", "A", "G" >>, << "x", "y", "z" >>,
                  << "m", "u", "m", "b", "a", "i" >>,
                  << "D", "u", "b", "a", "i" >> }

QtyChoices == { 0, 20 }

\* What the distance collaborator may do.
DistanceReplies ==
    { [ ok |-> FALSE, status |-> "", km |-> Absent ],
      [ ok |-> TRUE, status |-> "ZERO_RESULTS", km |-> Absent ],
      [ ok |-> TRUE, status |-> "OK", km |-> Junk ],
      [ ok |-> TRUE, status |-> "OK", km |-> NumStr(500) ] }

\* Draws of random.randint(50, 100) and of random.randint(120, 200).
Rates(domestic) == IF domestic THEN { 50, 75, 100 } ELSE { 120, 200 }

InternationalRow(commodity, region, price) ==
    [ Commodity |-> commodity, Region |-> region, Price_INR_per_Tonne |-> price ]

\* The international dataset: missing, or a small table.
Datasets ==
    { [ exists |-> FALSE, rows |-> << >> ],
      [ exists |-> TRUE,
        rows |-> << InternationalRow("Rice", "Mumbai", 40000),
                    InternationalRow("Wheat", "Mumbai", 25000),
                    InternationalRow("Wheat", "Dubai", 30000) >> ] }

InitTrade ==
    /\ pc = "start"
    /\ records = << >>
    /\ market_data = << >>
    /\ today = << 2024, 2, 27 >>
    /\ days = 0
    /\ price_forecast = << >>
    /\ jitter = << >>
    /\ raised = FALSE
    /\ summary = NoSummary
    /\ weather = NoWeather
    /\ ai = NoAi
    /\ insight = NoInsight
    /\ status = 0
    /\ calls = NoCalls
    /\ \E source \in PlaceQueries, destination \in PlaceQueries,
          qty \in QtyChoices, domestic \in BOOLEAN :
          trade = TradeQuery("wheat", source, destination, qty, domestic)

\* What the lookup leaves: a failure and the response, or the two prices.
AfterLookup(r) ==
    IF r.outcome = "found"
    THEN /\ trade' = [ trade EXCEPT !.lookup = "found", !.buy_price = r.buy_price,
                                    !.sell_price = r.sell_price ]
         /\ status' = status
         /\ pc' = "distance"
    ELSE /\ trade' = [ trade EXCEPT !.lookup = r.outcome ]
         /\ status' = LookupStatus(r.outcome)
         /\ pc' = "done"

\* Lines 431-444: the domestic lookup over the mandi records.
TradeLookupDomestic ==
    /\ pc = "start"
    /\ trade.domestic
    /\ \E reply \in MandiReplies :
          /\ records' = fetch_mandi_records(reply, today)
          /\ market_data' = normalize_mandi_records(records', trade.commodity)
          /\ calls' = Request(calls, "mandi", ~reply.ok)
    /\ AfterLookup(DomesticLookup(market_data', trade.source, trade.destination))
    /\ UNCHANGED << summary, weather, today, days, price_forecast, jitter, ai,
                    insight, raised >>

\* Lines 445-460: the international lookup over the dataset.
TradeLookupInternational ==
    /\ pc = "start"
    /\ ~trade.domestic
    /\ \E dataset \in Datasets :
          AfterLookup(InternationalLookup(dataset, trade.commodity, trade.source,
                                          trade.destination))
    /\ UNCHANGED << records, market_data, summary, weather, today, days,
                    price_forecast, jitter, ai, insight, raised, calls >>

\* Lines 462-487: distance, profit and the response; a division by zero in
\* the profit ends in the handler's 500.
TradeFinish ==
    /\ pc = "distance"
    /\ \E reply \in DistanceReplies, rate \in Rates(trade.domestic) :
          /\ calls' = Request(calls, "distance", ~reply.ok)
          /\ LET km == get_distance_km(reply, trade.source, trade.destination)
                 p  == compute_trade_profit(trade.buy_price, trade.sell_price, km,
                                            trade.qty_tonnes, rate)
             IN  IF ProfitRaises(trade.buy_price, trade.qty_tonnes)
                 THEN /\ trade' = [ trade EXCEPT !.distance_reply = reply,
                                                 !.distance_km = km, !.rate = rate ]
                      /\ status' = 500
                 ELSE /\ trade' = [ trade EXCEPT !.distance_reply = reply,
                                                 !.distance_km = km,
                                                 !.rate = rate,
                                                 !.logistics_cost = p.logistics_cost,
                                                 !.net_profit = p.net_profit,
                                                 !.roi = p.roi,
                                                 !.profitable = p.net_profit > 0 ]
                      /\ status' = 200
    /\ pc' = "done"
    /\ UNCHANGED << records, market_data, summary, weather, today, days,
                    price_forecast, jitter, ai, insight, raised >>

NextTrade == TradeLookupDomestic \/ TradeLookupInternational \/ TradeFinish

SpecTrade == InitTrade /\ [][NextTrade]_vars

-----------------------------------------------------------------------------
(* Properties of GET /terminal/simulate-trade.                             *)

\* No normalized record's market holds the source, or none the destination.
C1_UnknownPair ==
    \/ \A i \in 1..Len(market_data) :
          ~Contains(Lower(Chars(market_data[i].market)), Lower(trade.source))
    \/ \A i \in 1..Len(market_data) :
          ~Contains(Lower(Chars(market_data[i].market)), Lower(trade.destination))

\* C1: a domestic request whose source or destination is in no market name,
\* the case of no normalized records included, ends in a 404, never a 500.
C1_UnknownPairNotFound ==
    pc = "done" /\ trade.domestic /\ C1_UnknownPair => status = 404

-----------------------------------------------------------------------------
(* GET /dashboard/ : get_dashboard and its four fetchers.                  *)

\* float(r.get(key, 0)): an absent key reads the default 0, a null raises
\* TypeError and a non-numeric string ValueError.
DashboardFloatRaises(x) == x.t \in {"null", "junk"}

DashboardFloat(x) == IF x.t = "absent" THEN 0 ELSE x.v

\* Building one entry of the comprehension raises: r is no mapping (r.get
\* raises AttributeError) or one of its three prices does not convert.
DashboardRecordRaises(r) ==
    \/ ~r.is_map
    \/ DashboardFloatRaises(r.modal_price)
    \/ DashboardFloatRaises(r.max_price)
    \/ DashboardFloatRaises(r.min_price)

DashboardRecord(r) ==
    [ commodity    |-> r.commodity,
      market       |-> r.market,
      modal_price  |-> DashboardFloat(r.modal_price),
      max_price    |-> DashboardFloat(r.max_price),
      min_price    |-> DashboardFloat(r.min_price),
      arrival_date |-> r.arrival_date ]

\* The three static records of the except branch.
StaticMandi(location) ==
    << [ commodity |-> "Wheat", market |-> location, modal_price |-> 2300 ],
       [ commodity |-> "Soybean", market |-> location, modal_price |-> 5200 ],
       [ commodity |-> "Maize", market |-> location, modal_price |-> 1850 ] >>

\* One try spans the request, the empty check and the whole comprehension, so
\* an error on any record discards every record built before it.
fetch_mandi_data(reply, location) ==
    IF /\ reply.ok
       /\ reply.data # << >>
       /\ \A i \in 1..Len(reply.data) : ~DashboardRecordRaises(reply.data[i])
    THEN [ i \in 1..Len(reply.data) |-> DashboardRecord(reply.data[i]) ]
    ELSE StaticMandi(location)

\* The weather of the dashboard: the provider's reading and the number of
\* forecast days, or the static snapshot when anything raised; reading
\* forecast_days[0] of an empty forecast raises IndexError.
fetch_weather_data(reply, location) ==
    IF reply.ok /\ reply.forecast_days > 0
    THEN [ location |-> location, country |-> "India",
           current |-> [ temp_c |-> reply.temp_c.v, condition |-> "live" ],
           forecast |-> reply.forecast_days ]
    ELSE [ location |-> location, country |-> "India",
           current |-> [ temp_c |-> 30, condition |-> "Clear" ],
           forecast |-> 0 ]

\* response.text.strip(), or the fixed sentence when the call raised or the
\* reply has no text.
generate_ai_summary(a) ==
    IF a.outcome = "text" THEN "collaborator" ELSE "Stable weather and moderate market trends"

Crop(crop, confidence) == [ crop |-> crop, confidence |-> confidence ]

\* json.loads of the reply's text; the inner except gives one fixed list, the
\* outer except another.
generate_multi_crop_insights(a) ==
    IF a.outcome # "text"
    THEN << Crop("Wheat", 80), Crop("Maize", 75), Crop("Soybean", 70) >>
    ELSE IF a.json = "invalid"
         THEN << Crop("Soybean", 90), Crop("Wheat", 85), Crop("Maize", 78) >>
         ELSE a.parsed

\* What an entry of the dashboard's batch may be.
DashboardShapes ==
    { [ is_map |-> FALSE, modal |-> Absent, min |-> Absent, max |-> Absent ],
      [ is_map |-> TRUE, modal |-> Absent, min |-> NumStr(90), max |-> NumStr(110) ],
      [ is_map |-> TRUE, modal |-> NumStr(100), min |-> Null, max |-> NumStr(110) ],
      [ is_map |-> TRUE, modal |-> Junk, min |-> NumStr(90), max |-> NumStr(110) ],
      [ is_map |-> TRUE, modal |-> NumStr(100), min |-> NumStr(90), max |-> Num(110) ] }

DashboardBatches(n) ==
    { [ i \in 1..n |-> IF b[i].is_map THEN RawRecord(i, b[i].modal, b[i].min, b[i].max)
                       ELSE NonMapping(i) ] : b \in [1..n -> DashboardShapes] }

\* What the market-price provider may do for the dashboard.
DashboardMandiReplies ==
    { [ ok |-> FALSE, data |-> << >> ], [ ok |-> TRUE, data |-> << >> ] }
        \cup { [ ok |-> TRUE, data |-> b ] :
                 b \in UNION { DashboardBatches(n) : n \in 1..MaxRecords } }

DashboardWeatherReplies ==
    { [ ok |-> FALSE, temp_c |-> Absent, forecast_days |-> 0 ],
      [ ok |-> TRUE, temp_c |-> Num(25), forecast_days |-> 0 ],
      [ ok |-> TRUE, temp_c |-> Num(25), forecast_days |-> 7 ] }

DashboardAiReplies ==
    { AiReply("raises", "invalid", FALSE, << >>),
      AiReply("no_text", "invalid", FALSE, << >>),
      AiReply("text", "invalid", FALSE, << >>),
      AiReply("text", "other", FALSE, << Crop("Rice", 88) >>) }

InitDashboard ==
    /\ pc = "dashboard"
    /\ records = << >>
    /\ market_data = << >>
    /\ today = << 2024, 2, 27 >>
    /\ days = 0
    /\ price_forecast = << >>
    /\ jitter = << >>
    /\ raised = FALSE
    /\ Idle

\* Line 34: fetch_weather_data.
DashboardWeather ==
    /\ pc = "dashboard"
    /\ \E reply \in DashboardWeatherReplies :
          /\ weather' = fetch_weather_data(reply, "Indore")
          /\ calls' = Request(calls, "weather", ~reply.ok)
    /\ pc' = "dashboard_mandi"
    /\ UNCHANGED << records, market_data, summary, today, days, price_forecast,
                    jitter, ai, insight, status, raised, trade >>

\* Lines 37-59: fetch_mandi_data, and the summary prompt is sent.
DashboardMandi ==
    /\ pc = "dashboard_mandi"
    /\ \E reply \in DashboardMandiReplies :
          /\ records' = reply.data
          /\ market_data' = fetch_mandi_data(reply, "Indore")
          /\ calls' = Request(Request(calls, "mandi", ~reply.ok), "ai_summary", FALSE)
    /\ pc' = "await_summary"
    /\ UNCHANGED << summary, weather, today, days, price_forecast, jitter, ai,
                    insight, status, raised, trade >>

\* Lines 59-62: the summary comes back, and the crops prompt is sent.
DashboardSummary ==
    /\ pc = "await_summary"
    /\ \E a \in DashboardAiReplies :
          /\ insight' = [ ai_summary |-> generate_ai_summary(a),
                          ai_crop_insights |-> << >> ]
          /\ calls' = Request([ calls EXCEPT !["ai_summary"].failed = a.outcome = "raises" ],
                              "ai_crops", FALSE)
    /\ pc' = "await_crops"
    /\ UNCHANGED << records, market_data, summary, weather, today, days,
                    price_forecast, jitter, ai, status, raised, trade >>

\* Lines 60-75: the crops come back and the handler responds.
DashboardCrops ==
    /\ pc = "await_crops"
    /\ \E a \in DashboardAiReplies :
          /\ ai' = a
          /\ insight' = [ insight EXCEPT !.ai_crop_insights = generate_multi_crop_insights(a) ]
          /\ calls' = [ calls EXCEPT !["ai_crops"].failed = a.outcome = "raises" ]
    /\ status' = 200
    /\ pc' = "dashboard_done"
    /\ UNCHANGED << records, market_data, summary, weather, today, days,
                    price_forecast, jitter, raised, trade >>

NextDashboard == DashboardWeather \/ DashboardMandi \/ DashboardSummary \/ DashboardCrops

SpecDashboard == InitDashboard /\ [][NextDashboard]_vars

-----------------------------------------------------------------------------
(* Properties of the market data of GET /dashboard/.                       *)

\* fetch_mandi_data has returned.
C11_Fetched == pc \in { "await_summary", "await_crops", "dashboard_done" }

\* A record of the batch with nothing malformed or missing.
C11_WellFormed(r) ==
    /\ r.is_map
    /\ r.modal_price.t \in { "numstr", "num" }
    /\ r.min_price.t \in { "numstr", "num" }
    /\ r.max_price.t \in { "numstr", "num" }

\* The returned market data is the static set.
C11_IsStatic == Len(market_data) = 3 /\ market_data[2].commodity = "Soybean"

\* C11: a malformed or missing field never aborts the whole batch: every
\* well-formed record of the provider's batch is present in the market data
\* the dashboard returns, and the static set is returned only when the
\* provider call failed or sent no records.
C11_BatchNeverAborted ==
    C11_Fetched =>
        /\ \A i \in 1..Len(records) :
              C11_WellFormed(records[i]) =>
                  \E k \in 1..Len(market_data) :
                      /\ market_data[k].market = records[i].market
                      /\ market_data[k].modal_price = records[i].modal_price.v
        /\ C11_IsStatic => calls["mandi"].failed \/ records = << >>

-----------------------------------------------------------------------------
(* compute_trade_profit, called on its own with the rate it drew.          *)

\* Prices per tonne, quantities and distances of a call.
ProfitPrices == { 0, 100, 150, 235 }

ProfitQuantities == { 0, 10, 20 }

ProfitDistances == { 0, 120, 500 }

InitProfit ==
    /\ pc = "call"
    /\ records = << >>
    /\ market_data = << >>
    /\ today = << 2024, 2, 27 >>
    /\ days = 0
    /\ price_forecast = << >>
    /\ jitter = << >>
    /\ raised = FALSE
    /\ summary = NoSummary
    /\ weather = NoWeather
    /\ ai = NoAi
    /\ insight = NoInsight
    /\ status = 0
    /\ calls = NoCalls
    /\ \E buy \in ProfitPrices, sell \in ProfitPrices, qty \in ProfitQuantities,
          km \in ProfitDistances, domestic \in BOOLEAN :
          trade = [ TradeQuery("wheat", << >>, << >>, qty, domestic)
                      EXCEPT !.lookup = "found", !.buy_price = buy,
                             !.sell_price = sell, !.distance_km = km ]

\* Lines 463-483: the call, and the fields of the response made of its result.
Profit ==
    /\ pc = "call"
    /\ \E rate \in Rates(trade.domestic) :
          LET p == compute_trade_profit(trade.buy_price, trade.sell_price,
                                        trade.distance_km, trade.qty_tonnes, rate)
          IN  IF ProfitRaises(trade.buy_price, trade.qty_tonnes)
              THEN /\ trade' = [ trade EXCEPT !.rate = rate ]
                   /\ raised' = TRUE
              ELSE /\ trade' = [ trade EXCEPT !.rate = rate,
                                              !.logistics_cost = p.logistics_cost,
                                              !.net_profit = p.net_profit,
                                              !.roi = p.roi,
                                              !.profitable = p.net_profit > 0 ]
                   /\ raised' = FALSE
    /\ pc' = "returned"
    /\ UNCHANGED << records, market_data, summary, weather, today, days,
                    price_forecast, jitter, ai, insight, status, calls >>

NextProfit == Profit

SpecProfit == InitProfit /\ [][NextProfit]_vars

-----------------------------------------------------------------------------
(* Properties of compute_trade_profit.                                     *)

C12_Abs(x) == IF x < 0 THEN -x ELSE x

\* roi, in hundredths of a percent, is the hundredth nearest to
\* net_profit / (buy * qty) * 100.
C12_RoiOf(roi, net_profit, cost) ==
    2 * C12_Abs(roi * cost - 10000 * net_profit) <= cost

\* C12: with the rate r drawn from 50..100 (domestic) or 120..200
\* (international), a call that returns gives logistics_cost = r * distance,
\* net_profit = (sell - buy) * qty - logistics_cost, roi = net_profit /
\* (buy * qty) * 100 when buy > 0 and roi = 0 otherwise, and profitable is
\* true exactly when net_profit > 0.
C12_ProfitArithmetic ==
    pc = "returned" /\ ~raised =>
        /\ trade.rate \in (IF trade.domestic THEN 50..100 ELSE 120..200)
        /\ trade.logistics_cost = trade.rate * trade.distance_km
        /\ trade.net_profit =
              (trade.sell_price - trade.buy_price) * trade.qty_tonnes
                  - trade.logistics_cost
        /\ trade.buy_price > 0 =>
              C12_RoiOf(trade.roi, trade.net_profit,
                        trade.buy_price * trade.qty_tonnes)
        /\ trade.buy_price <= 0 => trade.roi = 0
        /\ trade.profitable <=> trade.net_profit > 0

\* The example of the claim: buy 100, sell 150, 10 tonnes over 500 km at rate
\* 75 cost 37500, lose 37000, roi -3700 %, not profitable.
C12_Witness ==
    /\ pc = "returned"
    /\ ~raised
    /\ trade.buy_price = 100
    /\ trade.sell_price = 150
    /\ trade.qty_tonnes = 10
    /\ trade.distance_km = 500
    /\ trade.rate = 75
    /\ trade.logistics_cost = 37500
    /\ trade.net_profit = -37000
    /\ trade.roi = -370000
    /\ ~trade.profitable

-----------------------------------------------------------------------------
(* get_distance_km, called on its own.                                     *)

\* Place names of a call: in and out of the table, in either case, and one
\* destination naming two ports of the table.
DistancePlaces ==
    { << "m", "u", "m", "b", "a", "i" >>,
      << "N", "a", "v", "i", " ", "M", "U", "M", "B", "A", "I" >>,
      << "P", "u", "n", "e" >>,
      << "D", "e", "l", "h", "i" >>,
      << "d", "u", "b" >>,
      << "s", "i", "n", "g", "a", "p", "o", "r", "e", " ", "D", "u", "b", "a", "i" >>,
      << "x", "y", "z" >> }

InitDistance ==
    /\ pc = "call"
    /\ records = << >>
    /\ market_data = << >>
    /\ today = << 2024, 2, 27 >>
    /\ days = 0
    /\ price_forecast = << >>
    /\ jitter = << >>
    /\ raised = FALSE
    /\ summary = NoSummary
    /\ weather = NoWeather
    /\ ai = NoAi
    /\ insight = NoInsight
    /\ status = 0
    /\ calls = NoCalls
    /\ \E source \in DistancePlaces, destination \in DistancePlaces :
          trade = TradeQuery("wheat", source, destination, 0, FALSE)

\* One call: both returns and the except branch end in a number.
Distance ==
    /\ pc = "call"
    /\ \E reply \in DistanceReplies :
          /\ trade' = [ trade EXCEPT
                          !.distance_reply = reply,
                          !.distance_km = get_distance_km(reply, trade.source,
                                                          trade.destination) ]
          /\ calls' = Request(calls, "distance", ~reply.ok)
    /\ raised' = FALSE
    /\ pc' = "returned"
    /\ UNCHANGED << records, market_data, summary, weather, today, days,
                    price_forecast, jitter, ai, insight, status >>

NextDistance == Distance

SpecDistance == InitDistance /\ [][NextDistance]_vars

-----------------------------------------------------------------------------
(* Properties of get_distance_km.                                          *)

\* The i-th route of the table matches the call: its first place is in the
\* lower-cased source and its second in the lower-cased destination.
C13_Matches(i) ==
    /\ Contains(Lower(trade.source), Routes[i].a)
    /\ Contains(Lower(trade.destination), Routes[i].b)

\* d is the distance of the first matching route, or 5000 when none matches.
C13_TableDistance(d) ==
    \/ \E i \in 1..Len(Routes) :
          /\ C13_Matches(i)
          /\ \A j \in 1..(i - 1) : ~C13_Matches(j)
          /\ d = Routes[i].d
    \/ /\ \A i \in 1..Len(Routes) : ~C13_Matches(i)
       /\ d = 5000

\* C13: get_distance_km never raises and returns the collaborator's distance
\* when the call succeeded with status "OK" and a parsable km text, and
\* otherwise the distance of the first matching route of the table, or 5000
\* when no route matches.
C13_DistanceResolved ==
    pc = "returned" =>
        /\ ~raised
        /\ LET r == trade.distance_reply
           IN  IF r.ok /\ r.status = "OK" /\ r.km.t \in { "numstr", "num" }
               THEN trade.distance_km = r.km.v
               ELSE C13_TableDistance(trade.distance_km)

\* The collaborator fails for Navi MUMBAI -> singapore Dubai: the routes to
\* Dubai and to Singapore both match, and the earlier one, Dubai, is taken.
C13_Witness ==
    /\ pc = "returned"
    /\ ~trade.distance_reply.ok
    /\ Len(trade.source) = 11
    /\ Len(trade.destination) = 15
    /\ C13_Matches(2)
    /\ C13_Matches(3)
    /\ trade.distance_km = 1900

-----------------------------------------------------------------------------
(* The three handlers together: a request goes to one of them.             *)

InitService == Init \/ InitTrade \/ InitDashboard

\* A request that carries a trade query is one to /terminal/simulate-trade.
NextService ==
    \/ trade = NoTrade /\ Next
    \/ trade # NoTrade /\ NextTrade
    \/ NextDashboard

SpecService == InitService /\ [][NextService]_vars

C14_InDashboard ==
    pc \in { "dashboard", "dashboard_mandi", "await_summary", "await_crops",
             "dashboard_done" }

\* The value a call site leaves when its call failed is its fallback's.
C14_FallbackUsed(site) ==
    CASE site = "mandi" ->
            IF C14_InDashboard
            THEN /\ Len(market_data) = 3
                 /\ market_data[1].modal_price = 2300
                 /\ market_data[2].modal_price = 5200
                 /\ market_data[3].modal_price = 1850
            ELSE /\ Len(records) = 2
                 /\ records[1].market = "Indore" /\ records[1].modal_price = NumStr(2350)
                 /\ records[2].market = "Nagpur" /\ records[2].modal_price = NumStr(2380)
      [] site = "weather" ->
            IF C14_InDashboard
            THEN weather.current.temp_c = 30 /\ weather.forecast = 0
            ELSE weather.current.precip_mm = Absent /\ weather.current.temp_c = Absent
      [] site = "ai" ->
            pc = "done" =>
                /\ ~raised
                /\ insight.market_sentiment.overall = "neutral"
                /\ insight.recommendation.confidence \in { 70, 75, 80 }
      [] site = "distance" ->
            \/ \E i \in 1..Len(Routes) : trade.distance_km = Routes[i].d
            \/ trade.distance_km = 5000
      [] site = "ai_summary" ->
            insight.ai_summary = "Stable weather and moderate market trends"
      [] site = "ai_crops" ->
            pc = "dashboard_done" =>
                /\ Len(insight.ai_crop_insights) = 3
                /\ insight.ai_crop_insights[1] = [ crop |-> "Wheat", confidence |-> 80 ]

\* Each call site has sent at most one request to its collaborator.
C14_AtMostOneRequest == \A site \in Sites : calls[site].requests <= 1

\* C14: no external call is retried: in every request each call site has sent
\* at most one request to its collaborator, and a call site whose call failed
\* has its fallback value in use, with that one request sent.
C14_NoRetry ==
    \A site \in Sites :
        /\ calls[site].requests <= 1
        /\ calls[site].failed => calls[site].requests = 1 /\ C14_FallbackUsed(site)

-----------------------------------------------------------------------------
(* fallback_structured_insight, called on its own.                         *)

\* Modal prices of the records of a call, with equal ones among them.
FallbackPrices == { NumStr(100), NumStr(150), NumStr(200) }

\* The normalized records of every batch of n raw records.
FallbackBatches(n) ==
    { normalize_mandi_records(
          [ i \in 1..n |-> RawRecord(i, b[i], NumStr(90), NumStr(110)) ], "wheat") :
        b \in [1..n -> FallbackPrices] }

\* The summary of a call: of no records, the one whose average_price is 0.
FallbackSummary(md) == IF md = << >> THEN NoSummary ELSE Summary(md, "wheat")

FallbackWeathers ==
    { [ location |-> "Indore", country |-> "India", current |-> c ] :
        c \in { EmptyCurrent, NullCurrent, Current(Num(5), Num(36)) } }

InitFallback ==
    /\ pc = "call"
    /\ records = << >>
    /\ \E n \in 0..MaxMarkets : market_data \in FallbackBatches(n)
    /\ summary = FallbackSummary(market_data)
    /\ today = << 2024, 2, 27 >>
    /\ days \in { 0, 1 }
    /\ jitter \in [1..days -> Jitters]
    /\ price_forecast = generate_price_forecast(market_data, days, today, jitter)
    /\ weather \in FallbackWeathers
    /\ raised = FALSE
    /\ ai = NoAi
    /\ insight = NoInsight
    /\ status = 0
    /\ trade = NoTrade
    /\ calls = NoCalls

\* One call: it returns the insight, or raises in the weather readings.
Fallback ==
    /\ pc = "call"
    /\ LET r == fallback_structured_insight(market_data, summary, price_forecast,
                                            weather)
       IN  IF r.raised
           THEN /\ insight' = insight
                /\ raised' = TRUE
           ELSE /\ insight' = r.value
                /\ raised' = FALSE
    /\ pc' = "returned"
    /\ UNCHANGED << records, market_data, summary, weather, today, days,
                    price_forecast, jitter, ai, status, trade, calls >>

NextFallback == Fallback

SpecFallback == InitFallback /\ [][NextFallback]_vars

-----------------------------------------------------------------------------
(* Properties of fallback_structured_insight.                              *)

\* next_price of the claim, in hundredths.
C15_NextPrice ==
    IF Len(price_forecast) > 0 THEN price_forecast[1].forecast_price
    ELSE summary.average_price

C15_Sell == 100 * C15_NextPrice > 102 * summary.average_price

C15_Buy == ~C15_Sell /\ 100 * C15_NextPrice < 98 * summary.average_price

\* C15: the insight the fallback returns recommends SELL with confidence 80
\* when next_price > 1.02 * average, otherwise BUY with confidence 75 when
\* next_price < 0.98 * average, otherwise HOLD with a confidence in 70..72,
\* where next_price is the first forecast price, or the average when there is
\* no forecast; one of the three always applies, and the overall sentiment
\* is "neutral".
C15_RecommendationHeuristic ==
    pc = "returned" /\ ~raised =>
        LET rec == insight.recommendation
        IN  /\ rec.action \in { "SELL", "BUY", "HOLD" }
            /\ C15_Sell => rec.action = "SELL" /\ rec.confidence = 80
            /\ C15_Buy => rec.action = "BUY" /\ rec.confidence = 75
            /\ ~C15_Sell /\ ~C15_Buy =>
                  rec.action = "HOLD" /\ rec.confidence \in 70..72
            /\ insight.market_sentiment.overall = "neutral"

\* Three records of average 150 whose first forecast price, 200, is above
\* 1.02 * 150: SELL.
C15_Witness ==
    /\ pc = "returned"
    /\ ~raised
    /\ Len(market_data) = 3
    /\ summary.average_price = 15000
    /\ Len(price_forecast) = 1
    /\ price_forecast[1].forecast_price = 20000
    /\ insight.recommendation.action = "SELL"

\* The place of record i in the stable order by price, descending (sign = -1)
\* or ascending (sign = 1): after every record that sorts before it and after
\* the earlier records of its own price.
C16_Rank(i, sign) ==
    1 + Cardinality({ j \in 1..Len(market_data) :
                        \/ sign * market_data[j].modal_price
                               < sign * market_data[i].modal_price
                        \/ /\ market_data[j].modal_price = market_data[i].modal_price
                           /\ j < i })

C16_Min(a, b) == IF a < b THEN a ELSE b

\* list holds the first min(5, n) records of that order, each as its market,
\* state and modal price.
C16_TopOf(list, sign) ==
    /\ Len(list) = C16_Min(5, Len(market_data))
    /\ \A i \in 1..Len(market_data) :
          C16_Rank(i, sign) <= Len(list) =>
              /\ list[C16_Rank(i, sign)].market = market_data[i].market
              /\ list[C16_Rank(i, sign)].state = market_data[i].state
              /\ list[C16_Rank(i, sign)].price = 100 * market_data[i].modal_price

\* C16: sell_high lists the min(5, n) records of highest modal price in
\* descending order and buy_low the min(5, n) of lowest modal price in
\* ascending order, records of equal price in their input order, each entry
\* with its record's market, state and modal price.
C16_TopMarkets ==
    pc = "returned" /\ ~raised =>
        /\ C16_TopOf(insight.optimal_market.sell_high, -1)
        /\ C16_TopOf(insight.optimal_market.buy_low, 1)

\* Six records priced 100, 200, 200, 100, 200, 200: sell_high is the four at
\* 200 in input order and then the first at 100; buy_low leaves out the last
\* of the six.
C16_Witness ==
    /\ pc = "returned"
    /\ ~raised
    /\ Len(market_data) = 6
    /\ \A i \in 1..6 : market_data[i].modal_price = (IF i \in { 1, 4 } THEN 100 ELSE 200)
    /\ Len(insight.optimal_market.sell_high) = 5
    /\ insight.optimal_market.sell_high[1].market = "Nagpur"
    /\ insight.optimal_market.sell_high[4].market = "Kolkata"
    /\ insight.optimal_market.sell_high[5].market = "Indore"
    /\ insight.optimal_market.buy_low[2].market = "Delhi"
    /\ insight.optimal_market.buy_low[5].market = "Mumbai"

-----------------------------------------------------------------------------
(* Completeness of the result of GET /terminal/simulate-trade.             *)

\* C17: whenever source and destination both match a price record, whatever
\* the quantity (0 included) and the buy price, simulate_trade answers with a
\* complete result, its logistics cost, net profit and roi computed, and not
\* with a server-side failure.
C17_CompleteResult ==
    pc = "done" /\ trade.lookup = "found" =>
        /\ status = 200
        /\ trade.logistics_cost = trade.rate * trade.distance_km
        /\ trade.profitable <=> trade.net_profit > 0

====
